---- MODULE Spec2Model ----
(***************************************************************************)
(* wrfhydropy/utilities.py: compare_nc_nccmp, compare_ncfiles and the      *)
(* RestartDiffs constructor, as a state machine.                           *)
(*                                                                         *)
(* Two specifications share the variables and the compare_ncfiles steps:   *)
(*   SpecFiles    one direct call of compare_ncfiles on arbitrary lists    *)
(*   SpecRestart  RestartDiffs.__init__ over the three restart categories  *)
(* The external nccmp process and the filesystem are the environment: the  *)
(* set of regular files is fixed in the initial state, and every           *)
(* subprocess.run draws its exit status and standard output from ProcEnv.  *)
(***************************************************************************)
EXTENDS Integers, Sequences, FiniteSets, TLC

VARIABLES
    fs,               \* the paths that are regular files (Path.is_file)
    candidate_run,    \* candidate_run.restart_<category>, per category
    reference_run,    \* reference_run.restart_<category>, per category
    nccmp_options,    \* the nccmp_options argument
    exclude_vars,     \* the exclude_vars argument (an optional list)
    pc,               \* position in the program
    caller,           \* who called compare_ncfiles: a category, or "direct"
    candidate_files,  \* compare_ncfiles: argument
    reference_files,  \* compare_ncfiles: argument
    ref_dir,          \* compare_ncfiles: local
    output_list,      \* compare_ncfiles: local
    idx,              \* compare_ncfiles: position of the for loop
    retval,           \* compare_ncfiles: returned value (optional)
    attrs,            \* self.hydro, self.lsm, self.nudging (optional lists)
    diff_counts,      \* self.diff_counts, a dict keyed by category
    warnings,         \* every warn() call, in order
    calls,            \* every subprocess.run call, in order: the process,
                      \* the category and loop position that ran it, and
                      \* whether its output was handed to read_table
    exc               \* the exception that ended the program, or "none"

vars == <<fs, candidate_run, reference_run, nccmp_options, exclude_vars, pc,
          caller, candidate_files, reference_files, ref_dir, output_list, idx,
          retval, attrs, diff_counts, warnings, calls, exc>>

----------------------------------------------------------------------------
(* Bounds of the model *)

\* longest candidate list of a direct compare_ncfiles call
MaxCand == 2
\* longest reference list of a direct compare_ncfiles call
MaxRef == 2
\* most candidate restart files of a run, over its three categories
MaxRunFiles == 3

----------------------------------------------------------------------------
(* Values *)

Categories == {"hydro", "lsm", "nudging"}

\* Python's None, and a value that is not None
None == [is_none |-> TRUE]
Some(v) == [is_none |-> FALSE, val |-> v]

\* pathlib.Path: a directory and a file name
Path(d, n) == [dir |-> d, name |-> n]

\* The candidate files, and the files that may exist on the reference side:
\* a directory "ref" with one name no candidate has, and one file elsewhere.
Names == {"a.nc", "b.nc"}
CandPaths == {Path("cand", n) : n \in Names}
RefPaths == {Path("ref", n) : n \in Names \cup {"c.nc"}}
              \cup {Path("alt", "b.nc")}

SeqsUpTo(S, n) == UNION {[1..k -> S] : k \in 0..n}

\* The lists that name no file twice
Distinct(lists) ==
    {l \in lists : \A i, j \in DOMAIN l : l[i] = l[j] => i = j}

DefaultOptions == <<"--data", "--metadata", "--force", "--quiet">>
DefaultExclude == <<"ACMELT", "ACSNOW", "SFCRUNOFF", "UDRUNOFF", "ACCPRCP",
                    "ACCECAN", "ACCEDIR", "ACCETRAN", "qstrmvolrt">>

\* The (nccmp_options, exclude_vars) arguments of a direct call
ArgChoices == { <<DefaultOptions, Some(DefaultExclude)>>,
                <<DefaultOptions, None>>,
                <<<<"--quiet", "--data">>, Some(<<"ACMELT", "ACSNOW">>)>>,
                <<<<>>, Some(<<>>)>> }

\* Captured standard output: whether the bytes are valid UTF-8, and what
\* the text is: nothing, a header row with data rows, or text that the
\* table parser rejects.
Stdout(u, s, n) == [utf8 |-> u, shape |-> s, rows |-> n]

\* What one run of the external comparator may do.
ProcEnv ==
    { [returncode |-> 0, stdout |-> Stdout(TRUE, "empty", 0)],
      [returncode |-> 0, stdout |-> Stdout(TRUE, "table", 1)],
      [returncode |-> 1, stdout |-> Stdout(TRUE, "table", 2)],
      [returncode |-> 1, stdout |-> Stdout(TRUE, "empty", 0)],
      [returncode |-> 2, stdout |-> Stdout(TRUE, "ragged", 0)],
      [returncode |-> 1, stdout |-> Stdout(FALSE, "table", 1)] }

----------------------------------------------------------------------------
(* compare_nc_nccmp *)

\* str(path)
Str(p) == p.dir \o "/" \o p.name

\* sep.join(items)
RECURSIVE Join(_, _)
Join(items, sep) ==
    IF items = <<>> THEN ""
    ELSE IF Len(items) = 1 THEN items[1]
    ELSE items[1] \o sep \o Join(Tail(items), sep)

\* Variant of CommandList: the reference path before the candidate path
CommandList_ReferenceFirst(candidate_nc, reference_nc, options, exclude) ==
    <<"nccmp">> \o options \o <<"-S">>
      \o (IF exclude.is_none THEN <<>> ELSE <<"-x " \o Join(exclude.val, ",")>>)
      \o <<Str(reference_nc), Str(candidate_nc)>>

\* The argument list handed to subprocess.run.
CommandList(candidate_nc, reference_nc, options, exclude) ==
    <<"nccmp">> \o options \o <<"-S">>
      \o (IF exclude.is_none THEN <<>> ELSE <<"-x " \o Join(exclude.val, ",")>>)
      \o <<Str(candidate_nc), Str(reference_nc)>>

\* subprocess.run: the CompletedProcess of a run that behaved as env
CompletedProcess(args, env) ==
    [kind |-> "CompletedProcess", args |-> args,
     returncode |-> env.returncode, stdout |-> env.stdout]

\* A pandas DataFrame of n rows
DataFrame(n) == [kind |-> "DataFrame", nrows |-> n]

\* pandas.read_table(output, delim_whitespace=True, header=0)
ReadTable(text) ==
    IF text.shape = "table"
    THEN [ok |-> TRUE, df |-> DataFrame(text.rows)]
    ELSE [ok |-> FALSE, df |-> DataFrame(0)]

\* Variant of NccmpResult: tests the captured output instead of the exit
\* status alone, so the output of a run that exited 0 is parsed as well
NccmpResult_TestsOutput(proc) ==
    IF proc.returncode # 0 \/ proc.stdout.shape # "empty"
    THEN IF ~proc.stdout.utf8
         THEN [ret |-> None, warned |-> FALSE, parsed |-> FALSE,
               exc |-> "UnicodeDecodeError"]
         ELSE IF ReadTable(proc.stdout).ok
              THEN [ret |-> Some(ReadTable(proc.stdout).df), warned |-> FALSE,
                    parsed |-> TRUE, exc |-> "none"]
              ELSE [ret |-> Some(proc), warned |-> TRUE, parsed |-> TRUE,
                    exc |-> "none"]
    ELSE [ret |-> None, warned |-> FALSE, parsed |-> FALSE, exc |-> "none"]

\* What compare_nc_nccmp does with the finished process: the returned value,
\* whether it warned, whether it handed the output to read_table, and the
\* exception that leaves it ("none" if none).
NccmpResult(proc) ==
    IF proc.returncode # 0
    THEN IF ~proc.stdout.utf8
         THEN [ret |-> None, warned |-> FALSE, parsed |-> FALSE,
               exc |-> "UnicodeDecodeError"]
         ELSE IF ReadTable(proc.stdout).ok
              THEN [ret |-> Some(ReadTable(proc.stdout).df), warned |-> FALSE,
                    parsed |-> TRUE, exc |-> "none"]
              ELSE [ret |-> Some(proc), warned |-> TRUE, parsed |-> TRUE,
                    exc |-> "none"]
    ELSE [ret |-> None, warned |-> FALSE, parsed |-> FALSE, exc |-> "none"]

NccmpWarning ==
    [site |-> "compare_nc_nccmp",
     msg |-> "Probleming reading nccmp output to pandas dataframe,"
             \o "returning as subprocess object"]

----------------------------------------------------------------------------
(* compare_ncfiles *)

\* Variant of RefDir: the parent of the last reference file
RefDir_LastReference(refs) ==
    IF refs = <<>> THEN None ELSE Some(refs[Len(refs)].dir)

\* reference_files[0].parent; None stands for the IndexError of an empty list
RefDir(refs) == IF refs = <<>> THEN None ELSE Some(refs[1].dir)

\* ref_dir.joinpath(file_candidate.name)
FileReference(dir, file_candidate) == Path(dir, file_candidate.name)

\* file_reference.is_file()
IsFile(p, files) == p \in files

\* Variant of NextOutput: the append is outside the if, so a candidate
\* without a reference file adds an entry too
NextOutput_AppendsAlways(out, found, ret) == Append(out, ret)

\* Variant of NextOutput: the newest outcome is put first
NextOutput_Prepends(out, found, ret) == IF found THEN <<ret>> \o out ELSE out

\* output_list after one pass of the loop body
NextOutput(out, found, ret) == IF found THEN Append(out, ret) ELSE out

NotFoundWarning(file_candidate, dir) ==
    [site |-> "compare_ncfiles",
     msg |-> Str(file_candidate) \o "not found in " \o dir]

\* Entry of compare_ncfiles: ref_dir and the empty output_list.
CompareNcfilesEnter ==
    /\ pc = "ncfiles"
    /\ IF RefDir(reference_files).is_none
       THEN /\ pc' = "raised"
            /\ exc' = "IndexError"
            /\ UNCHANGED <<ref_dir, output_list, idx>>
       ELSE /\ ref_dir' = RefDir(reference_files).val
            /\ output_list' = <<>>
            /\ idx' = 1
            /\ pc' = "loop"
            /\ exc' = exc
    /\ UNCHANGED <<fs, candidate_run, reference_run, nccmp_options,
                   exclude_vars, caller, candidate_files, reference_files,
                   retval, attrs, diff_counts, warnings, calls>>

\* One pass of the for loop, the call of compare_nc_nccmp included.
CompareNcfilesLoop ==
    /\ pc = "loop"
    /\ idx <= Len(candidate_files)
    /\ LET file_candidate == candidate_files[idx]
           file_reference == FileReference(ref_dir, file_candidate)
       IN IF IsFile(file_reference, fs)
          THEN \E env \in ProcEnv :
                 LET args == CommandList(file_candidate, file_reference,
                                         nccmp_options, exclude_vars)
                     proc == CompletedProcess(args, env)
                     res == NccmpResult(proc)
                 IN /\ calls' = Append(calls, [proc |-> proc, caller |-> caller,
                                               idx |-> idx,
                                               parsed |-> res.parsed])
                    /\ warnings' = IF res.warned
                                   THEN Append(warnings, NccmpWarning)
                                   ELSE warnings
                    /\ IF res.exc # "none"
                       THEN /\ pc' = "raised"
                            /\ exc' = res.exc
                            /\ UNCHANGED <<output_list, idx>>
                       ELSE /\ output_list' = NextOutput(output_list, TRUE, res.ret)
                            /\ idx' = idx + 1
                            /\ UNCHANGED <<pc, exc>>
          ELSE /\ warnings' = Append(warnings,
                                     NotFoundWarning(file_candidate, ref_dir))
               /\ output_list' = NextOutput(output_list, FALSE, None)
               /\ idx' = idx + 1
               /\ UNCHANGED <<pc, exc, calls>>
    /\ UNCHANGED <<fs, candidate_run, reference_run, nccmp_options,
                   exclude_vars, caller, candidate_files, reference_files,
                   ref_dir, retval, attrs, diff_counts>>

\* The loop is exhausted: return output_list.
CompareNcfilesReturn ==
    /\ pc = "loop"
    /\ idx > Len(candidate_files)
    /\ retval' = Some(output_list)
    /\ pc' = "returned"
    /\ UNCHANGED <<fs, candidate_run, reference_run, nccmp_options,
                   exclude_vars, caller, candidate_files, reference_files,
                   ref_dir, output_list, idx, attrs, diff_counts, warnings,
                   calls, exc>>

----------------------------------------------------------------------------
(* RestartDiffs.__init__ *)

\* Variant of BothNonEmpty: "or" for "and"
BothNonEmpty_Either(cand, ref) == Len(cand) # 0 \/ Len(ref) # 0

\* len(candidate) != 0 and len(reference) != 0
BothNonEmpty(cand, ref) == Len(cand) # 0 /\ Len(ref) # 0

\* None.__ne__(x): False for None, NotImplemented for anything else
NoneNe(x) == IF x.is_none THEN "False" ELSE "NotImplemented"

\* truth value of what None.__ne__ returns
Truthy(v) == v # "False"

\* Variant of CountDiffs: the length of the sequence, null outcomes included
CountDiffs_CountsAll(outcomes) == Len(outcomes)

\* sum(1 for _ in filter(None.__ne__, outcomes))
CountDiffs(outcomes) ==
    Cardinality({k \in DOMAIN outcomes : Truthy(NoneNe(outcomes[k]))})

\* dict.update({key: value})
Update(d, key, value) ==
    [k \in DOMAIN d \cup {key} |-> IF k = key THEN value ELSE d[k]]

EmptyWarning(c) ==
    [site |-> "RestartDiffs",
     msg |-> "length of candidate_sim.restart_" \o c
             \o " or reference_sim.restart_" \o c \o " is 0"]

\* The test of one category and, when it passes, the call of compare_ncfiles.
CheckCategory(c, next) ==
    /\ pc = c
    /\ IF BothNonEmpty(candidate_run[c], reference_run[c])
       THEN /\ candidate_files' = candidate_run[c]
            /\ reference_files' = reference_run[c]
            /\ caller' = c
            /\ pc' = "ncfiles"
            /\ UNCHANGED warnings
       ELSE /\ warnings' = Append(warnings, EmptyWarning(c))
            /\ pc' = next
            /\ UNCHANGED <<candidate_files, reference_files, caller>>
    /\ UNCHANGED <<fs, candidate_run, reference_run, nccmp_options,
                   exclude_vars, ref_dir, output_list, idx, retval, attrs,
                   diff_counts, calls, exc>>

\* compare_ncfiles returned: the attribute and the count of the category.
StoreCategory(c, next) ==
    /\ pc = "returned"
    /\ caller = c
    /\ attrs' = [attrs EXCEPT ![c] = retval]
    /\ diff_counts' = Update(diff_counts, c, CountDiffs(retval.val))
    /\ pc' = next
    /\ UNCHANGED <<fs, candidate_run, reference_run, nccmp_options,
                   exclude_vars, caller, candidate_files, reference_files,
                   ref_dir, output_list, idx, retval, warnings, calls, exc>>

CheckHydro == CheckCategory("hydro", "lsm")
StoreHydro == StoreCategory("hydro", "lsm")
CheckLsm == CheckCategory("lsm", "nudging")
StoreLsm == StoreCategory("lsm", "nudging")
CheckNudging == CheckCategory("nudging", "done")
StoreNudging == StoreCategory("nudging", "done")

----------------------------------------------------------------------------
(* Specifications *)

NoRun == [c \in Categories |-> <<>>]
NoAttrs == [c \in Categories |-> None]

\* Length of all the lists of a run together
TotalLen(run) == Len(run["hydro"]) + Len(run["lsm"]) + Len(run["nudging"])

RunRefLists == {<<>>, <<Path("ref", "a.nc"), Path("ref", "b.nc")>>}
RunFsPaths == {Path("ref", n) : n \in Names}

\* A direct call compare_ncfiles(candidate_files, reference_files, ...)
InitFiles ==
    /\ fs \in SUBSET RefPaths
    /\ candidate_files \in SeqsUpTo(CandPaths, MaxCand)
    /\ reference_files \in Distinct(SeqsUpTo(RefPaths, MaxRef))
    /\ \E a \in ArgChoices : nccmp_options = a[1] /\ exclude_vars = a[2]
    /\ candidate_run = NoRun
    /\ reference_run = NoRun
    /\ pc = "ncfiles"
    /\ caller = "direct"
    /\ ref_dir = ""
    /\ output_list = <<>>
    /\ idx = 0
    /\ retval = None
    /\ attrs = NoAttrs
    /\ diff_counts = <<>>
    /\ warnings = <<>>
    /\ calls = <<>>
    /\ exc = "none"

NextFiles ==
    \/ CompareNcfilesEnter
    \/ CompareNcfilesLoop
    \/ CompareNcfilesReturn

SpecFiles == InitFiles /\ [][NextFiles]_vars

\* RestartDiffs(candidate_run, reference_run) with the default options,
\* after the attributes are instantiated (self.diff_counts = {})
InitRestart ==
    /\ fs \in SUBSET RunFsPaths
    /\ candidate_run \in [Categories -> SeqsUpTo(CandPaths, MaxRunFiles)]
    /\ TotalLen(candidate_run) <= MaxRunFiles
    /\ reference_run \in [Categories -> RunRefLists]
    /\ nccmp_options = DefaultOptions
    /\ exclude_vars = Some(DefaultExclude)
    /\ pc = "hydro"
    /\ caller = "none"
    /\ candidate_files = <<>>
    /\ reference_files = <<>>
    /\ ref_dir = ""
    /\ output_list = <<>>
    /\ idx = 0
    /\ retval = None
    /\ attrs = NoAttrs
    /\ diff_counts = <<>>
    /\ warnings = <<>>
    /\ calls = <<>>
    /\ exc = "none"

NextRestart ==
    \/ CheckHydro
    \/ StoreHydro
    \/ CheckLsm
    \/ StoreLsm
    \/ CheckNudging
    \/ StoreNudging
    \/ CompareNcfilesEnter
    \/ CompareNcfilesLoop
    \/ CompareNcfilesReturn

SpecRestart == InitRestart /\ [][NextRestart]_vars

----------------------------------------------------------------------------
(* Vocabulary of the properties *)

\* compare_ncfiles is inside or past its loop
InLoop == pc \in {"loop", "returned"} \/ (pc = "raised" /\ exc # "IndexError")

\* The loop positions whose pass is complete
Processed == IF InLoop THEN 1..(idx - 1) ELSE {}

\* Candidate k has a same-named regular file in the directory of the
\* first reference file
HasReference(k) ==
    [dir |-> reference_files[1].dir, name |-> candidate_files[k].name] \in fs

\* The calls made for category (or direct caller) c
CallsOf(c) == {j \in DOMAIN calls : calls[j].caller = c}

\* The warnings of one site
WarningsOf(site) == {j \in DOMAIN warnings : warnings[j].site = site}

\* An outcome that is a parsed table, an opaque failure record, null
IsTable(o) == ~o.is_none /\ o.val.kind = "DataFrame"
IsFailure(o) == ~o.is_none /\ o.val.kind = "CompletedProcess"
IsNull(o) == o.is_none

\* The category was compared: neither collection is empty
Compared(c) == candidate_run[c] # <<>> /\ reference_run[c] # <<>>

----------------------------------------------------------------------------
(* C1: once RestartDiffs is constructed, every category with both          *)
(* collections non-empty has a count, and every count is the number of     *)
(* parsed tables plus the number of opaque failure records in the          *)
(* category's outcome sequence; null outcomes are not counted.             *)
C1_DiffCountsCountNonNull ==
    /\ \A c \in DOMAIN diff_counts :
         /\ ~attrs[c].is_none
         /\ LET seq == attrs[c].val
                tables == {k \in DOMAIN seq : IsTable(seq[k])}
                failures == {k \in DOMAIN seq : IsFailure(seq[k])}
                nulls == {k \in DOMAIN seq : IsNull(seq[k])}
            IN /\ diff_counts[c] = Cardinality(tables) + Cardinality(failures)
               /\ diff_counts[c] = Len(seq) - Cardinality(nulls)
    /\ pc = "done" => \A c \in Categories : Compared(c) => c \in DOMAIN diff_counts

\* A finished report whose hydro sequence holds a table, a failure record
\* and a null outcome, counted 2.
C1_Witness ==
    /\ pc = "done"
    /\ "hydro" \in DOMAIN diff_counts
    /\ diff_counts["hydro"] = 2
    /\ Len(attrs["hydro"].val) = 3
    /\ \E k \in 1..3 : IsTable(attrs["hydro"].val[k])
    /\ \E k \in 1..3 : IsFailure(attrs["hydro"].val[k])
    /\ \E k \in 1..3 : IsNull(attrs["hydro"].val[k])

(* C2: a comparator run that exits with status 0 yields the null outcome,  *)
(* its output is never handed to the table parser, and it adds nothing to  *)
(* its category's count: the count of a category is the number of its      *)
(* runs that exited non-zero.                                              *)
C2_ExitZeroIsNoDifference ==
    /\ \A j \in DOMAIN calls :
         calls[j].proc.returncode = 0 => ~calls[j].parsed
    /\ InLoop /\ caller \in Categories =>
         \A k \in DOMAIN output_list :
            \E j \in CallsOf(caller) :
               /\ Cardinality({i \in CallsOf(caller) : i <= j}) = k
               /\ calls[j].proc.returncode = 0 => output_list[k] = None
    /\ \A c \in DOMAIN diff_counts :
         diff_counts[c] =
            Cardinality({j \in CallsOf(c) : calls[j].proc.returncode # 0})

\* A finished report with a category whose every run exited 0, one of them
\* with a table on its standard output, and whose count is 0.
C2_Witness ==
    /\ pc = "done"
    /\ "lsm" \in DOMAIN diff_counts
    /\ diff_counts["lsm"] = 0
    /\ Cardinality(CallsOf("lsm")) = 2
    /\ \E j \in CallsOf("lsm") : calls[j].proc.stdout.shape = "table"
    /\ attrs["lsm"] = Some(<<None, None>>)

(* C3: in compare_ncfiles with a non-empty reference list, each candidate  *)
(* without a same-named file in the reference directory gets exactly one   *)
(* warning, is never handed to the comparator and adds nothing to the      *)
(* result, so the result is as long as the candidates with such a file     *)
(* are many.                                                               *)
C3_MissingReferenceSkipped ==
    InLoop =>
      LET missing == {k \in Processed : ~HasReference(k)}
          matched == {k \in Processed : HasReference(k)}
      IN /\ Cardinality(WarningsOf("compare_ncfiles")) = Cardinality(missing)
         /\ \A k \in missing :
              /\ Cardinality({j \in WarningsOf("compare_ncfiles") :
                     warnings[j].msg
                       = Str(candidate_files[k]) \o "not found in "
                           \o reference_files[1].dir})
                 = Cardinality({i \in missing :
                                  candidate_files[i] = candidate_files[k]})
              /\ \A j \in DOMAIN calls : calls[j].idx # k
         /\ Len(output_list) = Cardinality(matched)
         /\ pc = "returned" =>
              /\ retval = Some(output_list)
              /\ Len(retval.val)
                   = Cardinality({k \in DOMAIN candidate_files : HasReference(k)})

\* candidates a.nc and b.nc, a reference directory holding only a.nc:
\* a result of length 1 and one warning, about b.nc
C3_Witness ==
    /\ pc = "returned"
    /\ candidate_files = <<Path("cand", "a.nc"), Path("cand", "b.nc")>>
    /\ reference_files = <<Path("ref", "a.nc")>>
    /\ fs = {Path("ref", "a.nc")}
    /\ Len(retval.val) = 1
    /\ Len(warnings) = 1
    /\ warnings[1].msg = "cand/b.ncnot found in ref"

\* The categories whose test RestartDiffs.__init__ has already made
Tested ==
    CASE pc = "hydro" -> {}
      [] pc = "lsm" -> {"hydro"}
      [] pc = "nudging" -> {"hydro", "lsm"}
      [] pc = "done" -> Categories
      [] OTHER -> CASE caller = "hydro" -> {"hydro"}
                    [] caller = "lsm" -> {"hydro", "lsm"}
                    [] OTHER -> Categories

(* C4: a category with an empty candidate or reference collection never    *)
(* reaches the comparator, keeps its attribute unset, gets no key in       *)
(* diff_counts and gets exactly one warning, emitted when its test is      *)
(* made; a compared category gets no such warning; and once RestartDiffs   *)
(* is constructed the keys of diff_counts are exactly the compared         *)
(* categories.                                                             *)
C4_EmptyCategorySkipped ==
    /\ \A c \in Categories :
         LET emptyWarnings ==
               {j \in WarningsOf("RestartDiffs") :
                  warnings[j].msg = "length of candidate_sim.restart_" \o c
                     \o " or reference_sim.restart_" \o c \o " is 0"}
         IN IF Compared(c)
            THEN emptyWarnings = {}
            ELSE /\ CallsOf(c) = {}
                 /\ attrs[c] = None
                 /\ c \notin DOMAIN diff_counts
                 /\ Cardinality(emptyWarnings) = IF c \in Tested THEN 1 ELSE 0
    /\ Cardinality(WarningsOf("RestartDiffs"))
         = Cardinality({c \in Tested : ~Compared(c)})
    /\ pc = "done" => DOMAIN diff_counts = {c \in Categories : Compared(c)}

\* A finished report of runs whose hydro collections are both empty and whose
\* lsm candidates are empty: no key and no attribute for either, one warning
\* each, and nudging compared.
C4_Witness ==
    /\ pc = "done"
    /\ candidate_run["hydro"] = <<>> /\ reference_run["hydro"] = <<>>
    /\ candidate_run["lsm"] = <<>> /\ reference_run["lsm"] # <<>>
    /\ DOMAIN diff_counts = {"nudging"}
    /\ attrs["hydro"] = None
    /\ Cardinality(WarningsOf("RestartDiffs")) = 2
    /\ calls # <<>>

(* C5: compare_ncfiles called with an empty candidate list or an empty     *)
(* reference list does not raise, runs no comparator and returns an empty  *)
(* result.                                                                 *)
C5_EmptyInputReturnsEmpty ==
    (candidate_files = <<>> \/ reference_files = <<>>) =>
       /\ pc # "raised"
       /\ calls = <<>>
       /\ pc = "returned" => retval = Some(<<>>)

\* The standard output is a table the parser accepts
Tabular(out) == out.utf8 /\ out.shape = "table"

(* C6: a comparator run that exits non-zero never makes compare_nc_nccmp   *)
(* raise: with output that parses the outcome is the parsed table and      *)
(* there is no warning, with any other output the outcome is the failure   *)
(* record holding the process and there is one warning.                    *)
C6_ParseFailureDegrades ==
    InLoop =>
      /\ \A j \in DOMAIN calls :
           calls[j].proc.returncode # 0 =>
              /\ ~(pc = "raised" /\ j = Len(calls))
              /\ j \in DOMAIN output_list
              /\ IF Tabular(calls[j].proc.stdout)
                 THEN IsTable(output_list[j])
                 ELSE output_list[j] = Some(calls[j].proc)
      /\ Cardinality(WarningsOf("compare_nc_nccmp"))
           = Cardinality({j \in DOMAIN calls :
                            /\ calls[j].proc.returncode # 0
                            /\ ~Tabular(calls[j].proc.stdout)})

\* The comma-joined text of the exclusion lists of ArgChoices
JoinedExclude ==
    CASE exclude_vars = Some(<<>>) -> ""
      [] exclude_vars = Some(<<"ACMELT", "ACSNOW">>) -> "ACMELT,ACSNOW"
      [] exclude_vars = Some(DefaultExclude) ->
           "ACMELT,ACSNOW,SFCRUNOFF,UDRUNOFF,ACCPRCP,ACCECAN,ACCEDIR,ACCETRAN,qstrmvolrt"
      [] OTHER -> "?"

(* C7: every argument list handed to the external process is "nccmp", the  *)
(* options in their order, "-S", one element "-x <names joined by commas>" *)
(* exactly when exclude_vars is not None, then the candidate path and the  *)
(* reference path.                                                         *)
C7_CommandLine ==
    \A j \in DOMAIN calls :
       LET a == calls[j].proc.args
           n == Len(nccmp_options)
           x == IF exclude_vars = None THEN 0 ELSE 1
           cand == candidate_files[calls[j].idx]
       IN /\ Len(a) = n + x + 4
          /\ a[1] = "nccmp"
          /\ \A i \in 1..n : a[1 + i] = nccmp_options[i]
          /\ a[n + 2] = "-S"
          /\ x = 1 => a[n + 3] = "-x " \o JoinedExclude
          /\ a[n + x + 3] = cand.dir \o "/" \o cand.name
          /\ a[n + x + 4] = reference_files[1].dir \o "/" \o cand.name

\* A call with the default options and the default exclusion list, and so
\* with 9 arguments
C7_Witness ==
    /\ calls # <<>>
    /\ nccmp_options = DefaultOptions
    /\ exclude_vars = Some(DefaultExclude)
    /\ Len(calls[1].proc.args) = 9
    /\ calls[1].proc.args[8] = "cand/b.nc"
    /\ calls[1].proc.args[9] = "ref/b.nc"

(* C8: the construction of RestartDiffs never ends in an exception.        *)
C8_ConstructionNeverRaises == pc # "raised" /\ exc = "none"

\* The outcome that the result of a finished process stands for
OutcomeOf(proc) ==
    IF proc.returncode = 0 THEN None
    ELSE IF Tabular(proc.stdout) THEN Some([kind |-> "DataFrame",
                                            nrows |-> proc.stdout.rows])
    ELSE Some(proc)

(* C9: compare_ncfiles runs the comparator once for each candidate that    *)
(* has a same-named reference file, in candidate-list order, on the        *)
(* candidate and its same-named reference; the outcomes are listed in the  *)
(* order of the runs; and nothing else is run or warned about, so a file   *)
(* that only the reference side has is never compared and gets no warning. *)
C9_OncePerCandidateInOrder ==
    InLoop =>
      LET matched == {k \in Processed : HasReference(k)}
          started == matched \cup (IF pc = "raised" THEN {idx} ELSE {})
          candNames == {candidate_files[k].name : k \in DOMAIN candidate_files}
      IN /\ {calls[j].idx : j \in DOMAIN calls} = started
         /\ Len(calls) = Cardinality(started)
         /\ \A i, j \in DOMAIN calls : i < j => calls[i].idx < calls[j].idx
         /\ Len(output_list) = Cardinality(matched)
         /\ \A j \in DOMAIN output_list : output_list[j] = OutcomeOf(calls[j].proc)
         /\ Len(calls) + Cardinality(WarningsOf("compare_ncfiles"))
              = Cardinality(Processed) + (IF pc = "raised" THEN 1 ELSE 0)
         /\ \A p \in fs \cup {reference_files[k] : k \in DOMAIN reference_files} :
              p.name \notin candNames =>
                 /\ \A j \in DOMAIN calls :
                      \A i \in DOMAIN calls[j].proc.args :
                         calls[j].proc.args[i] # p.dir \o "/" \o p.name
                 /\ \A j \in WarningsOf("compare_ncfiles") :
                      \E k \in DOMAIN candidate_files :
                         warnings[j].msg = candidate_files[k].dir \o "/"
                            \o candidate_files[k].name \o "not found in "
                            \o reference_files[1].dir

\* Candidates b.nc then a.nc against references listed a.nc, b.nc, c.nc on
\* disk: two runs, b.nc first, with different outcomes, none for c.nc
C9_Witness ==
    /\ pc = "returned"
    /\ candidate_files = <<Path("cand", "b.nc"), Path("cand", "a.nc")>>
    /\ reference_files = <<Path("ref", "a.nc"), Path("ref", "b.nc")>>
    /\ Path("ref", "c.nc") \in fs
    /\ Len(calls) = 2
    /\ IsNull(retval.val[1]) /\ IsFailure(retval.val[2])
    /\ calls[1].proc.returncode = 0 /\ calls[2].proc.returncode = 2
    /\ warnings = <<NccmpWarning>>

(* C10: a candidate is compared exactly when a regular file with its name  *)
(* exists in the parent directory of the first reference file, and it is   *)
(* compared with that file; otherwise it gets the warning, wherever the    *)
(* listed reference files are.                                             *)
C10_FirstReferenceDirectoryOnly ==
    InLoop =>
      \A k \in Processed :
         LET expected == [dir |-> reference_files[1].dir,
                          name |-> candidate_files[k].name]
             runs == {j \in DOMAIN calls : calls[j].idx = k}
         IN IF expected \in fs
            THEN /\ Cardinality(runs) = 1
                 /\ \A j \in runs :
                      calls[j].proc.args[Len(calls[j].proc.args)]
                        = expected.dir \o "/" \o expected.name
            ELSE /\ runs = {}
                 /\ \E j \in WarningsOf("compare_ncfiles") :
                      warnings[j].msg = candidate_files[k].dir \o "/"
                         \o candidate_files[k].name \o "not found in "
                         \o expected.dir

\* References listed ref/c.nc and alt/b.nc, on disk alt/b.nc and ref/a.nc but
\* no ref/b.nc: candidate b.nc is warned about although its reference was
\* listed, candidate a.nc is compared with the unlisted ref/a.nc
C10_Witness ==
    /\ pc = "returned"
    /\ candidate_files = <<Path("cand", "b.nc"), Path("cand", "a.nc")>>
    /\ reference_files = <<Path("ref", "c.nc"), Path("alt", "b.nc")>>
    /\ Path("alt", "b.nc") \in fs
    /\ Path("ref", "a.nc") \in fs
    /\ Path("ref", "b.nc") \notin fs
    /\ Len(calls) = 1
    /\ calls[1].idx = 2
    /\ warnings[1].msg = "cand/b.ncnot found in ref"
    /\ Len(retval.val) = 1

====
